---- MODULE Spec2Model ----
(***************************************************************************)
(* Load-generation and metrics-aggregation engine.                         *)
(*                                                                         *)
(* Several state machines share this module:                               *)
(*   Spec          the Target Runner: BenchmarkClient.run and              *)
(*                 UnifiedBenchmarkClient.run with their worker threads;   *)
(*   SinkSpec      the Outcome Sink: MetricStorage on SQLite, with         *)
(*                 concurrent writers and a reader;                        *)
(*   ExporterSpec  the same writers with the metrics endpoint as reader;   *)
(*   OrchSpec      steps 3.5 to 6 of BenchmarkOrchestrator.run_benchmark,  *)
(*                 parallel and sequential;                                *)
(*   AggSpec       the Aggregator and the two Exposition Encoders;         *)
(*   MixSpec       execute_operation of the specialised clients;           *)
(*   RaceSpec      the resource list a specialised client shares between   *)
(*                 its worker threads;                                     *)
(*   SetupSpec     UnifiedBenchmarkClient.setup and the orchestrator's     *)
(*                 decision to run.                                        *)
(* Time is counted in ticks of one pacing interval (1 / requests_per_      *)
(* second), so time.sleep(interval) lasts at least one tick.               *)
(***************************************************************************)
EXTENDS Integers, Sequences, FiniteSets, TLC

\* ------------------------------------------------------------ bounds
\* Longest run duration of a target, in pacing intervals.
MaxDuration == 2
\* Longest batch handed to the sink in one append.
MaxBatch == 2
\* Number of distinct timestamps a metric can carry.
MaxTs == 2
\* Number of targets of a recipe.
NTargets == 2
\* Largest number of metrics one target's benchmark returns.
MaxMetrics == 2
\* Largest limit passed to get_latest_metrics.
MaxLimit == 2
\* Longest list of Outcomes handed to the Aggregator or the Encoder.
MaxOutcomes == 3
\* Number of resources the workers of one specialised client create.
MaxIds == 2

\* client_count values of a target configuration.
ClientCounts == {1, 2}

Horizon == MaxDuration + 1

\* Python's None, as the value of an optional field.
None == "None"

\* Python's None, as the value an executor returns.
NoneResult == [kind |-> "None"]

\* No executor call has returned yet.
NoCall == [kind |-> "NoCall"]

\* An exception propagates out of a call.
Raised == [kind |-> "raised"]

VARIABLES
    \* ---- Target Runner
    cfg,            \* service_config of the target
    now,            \* time.time(), in ticks
    runpc,          \* run(): "idle", "spawning", "joining", "returned"
    spawned,        \* number of threads run() has started
    wpc,            \* per worker: "unstarted", "check", "inflight", "sleep", "done"
    wstart,         \* per worker: start = time.time() of the loop
    opStart,        \* per worker: start_time of the operation in flight
    sleepStart,     \* per worker: time at which time.sleep(interval) was entered
    thread_results, \* per worker: thread_results of run_client_thread
    results,        \* self.results (BenchmarkClient) / all_results (unified)
    returned,       \* the list run() returned
    ret,            \* per worker: kind of value the executor last returned
    attempts,       \* per worker: number of executor calls made (history)
    produced,       \* set of Outcomes executors have returned (history)
    \* ---- Outcome Sink (metrics.db)
    db,             \* committed rows of table metrics, in rowid order
    wlock,          \* connection holding SQLite's write lock, or None
    spc,            \* per writer: "idle", "open", "raised", "failed", "done"
    batch,          \* per writer: the metrics list passed to record_metrics
    txn,            \* per writer: rows inserted by the open transaction
    lastQuery,      \* the last get_metrics call and what it returned
    overlapped,     \* an append was entered while another was open (history)
    lastLatest,     \* the last get_latest_metrics call and what it returned
    \* ---- Orchestrator, step 4 of run_benchmark
    parallel,       \* self.parallel
    max_workers,    \* self.max_workers
    opc,            \* run_benchmark: "step3.5", "step4", "report", "cleanup", "done", "raised"
    raisedError,    \* the exception run_benchmark raised, or "none"
    service_endpoints, \* names that have an entry in service_endpoints
    tstate,         \* per target: "pending", "running", "finished", "processed"
    fate,           \* per target: how its benchmark went (history)
    outcomes,       \* per target: the metrics its runner produced (history)
    future,         \* per target: what _benchmark_single_service returned
    benchmark_results, \* per target: the (metrics, success) entry
    sink,           \* rows the Monitor holds for the run
    sinkFailed,     \* targets whose record_metrics call raised (history)
    report,         \* the report generate_report returned in step 5
    services_config,\* per target: its service_config dict
    services,       \* per target in self.services: "started", "stop_called"
    invocations,    \* per target: calls of _benchmark_single_service (history)
    \* ---- Aggregator and Exposition Encoder
    metrics_in,     \* the list of metrics passed in
    output,         \* the operation applied to it and what it returned
    reencoded,      \* what encoding the same list a second time returned
    \* ---- Operation mix of a specialised client
    mixClient,      \* the class of the specialised client
    operation_mix,  \* self.operation_mix: (operation, weight) in dict order
    executed,       \* the last execute_operation call: its draw, what it ran
    \* ---- Resource list of a specialised client shared by its workers
    raceClient,     \* the class of the specialised client
    created_objects,\* self.created_objects / created_files / inserted_ids
    next_id,        \* number of resources created so far
    dpc,            \* per worker: "idle", or "checked" / "sampled" inside delete
    ids_to_delete,  \* per worker: the identifier execute_delete sampled
    deleted,        \* identifiers handed to the backend's delete (history)
    opFailed,       \* workers with an operation that returned success=False
    \* ---- Setup of a unified client by the orchestrator
    unified_config, \* the service_config the unified client was created with
    upc,            \* "start", "connected", "returned_true", "returned_false",
                    \* "running", "operated", "skipped"
    client_calls,   \* methods called on the specialised client, with results
    resource_ready, \* the bucket / table / directory of the client exists
    first_result    \* "none", or how the first operation of the run went

runnerVars == <<cfg, now, runpc, spawned, wpc, wstart, opStart, sleepStart,
                thread_results, results, returned, ret, attempts, produced>>

sinkVars == <<db, wlock, spc, batch, txn, lastQuery, overlapped, lastLatest>>

orchVars == <<parallel, max_workers, opc, raisedError, service_endpoints, tstate,
              fate, outcomes, future, benchmark_results, sink, sinkFailed, report,
              services_config, services, invocations>>

aggVars == <<metrics_in, output, reencoded>>

mixVars == <<mixClient, operation_mix, executed>>

raceVars == <<raceClient, created_objects, next_id, dpc, ids_to_delete, deleted,
              opFailed>>

setupVars == <<unified_config, upc, client_calls, resource_ready, first_result>>

vars == <<runnerVars, sinkVars, orchVars, aggVars, mixVars, raceVars, setupVars>>

\* What the actions of one state machine leave alone.
notRunner == <<sinkVars, orchVars, aggVars, mixVars, raceVars, setupVars>>
notSink == <<runnerVars, orchVars, aggVars, mixVars, raceVars, setupVars>>
notOrch == <<runnerVars, sinkVars, aggVars, mixVars, raceVars, setupVars>>
notAgg == <<runnerVars, sinkVars, orchVars, mixVars, raceVars, setupVars>>
notMix == <<runnerVars, sinkVars, orchVars, aggVars, raceVars, setupVars>>
notRace == <<runnerVars, sinkVars, orchVars, aggVars, mixVars, setupVars>>
notSetup == <<runnerVars, sinkVars, orchVars, aggVars, mixVars, raceVars>>

\* ------------------------------------------------------------ helpers
Range(s) == {s[i] : i \in 1..Len(s)}

NoDuplicates(s) == \A i, j \in 1..Len(s) : i # j => s[i] # s[j]

\* ------------------------------------------------------------ configuration
\* The (service_type, backend) pairs a recipe can configure.
ServiceKinds ==
    { [service_type |-> "ollama",       backend |-> None],
      [service_type |-> "database",     backend |-> "postgresql"],
      [service_type |-> "s3",           backend |-> None],
      [service_type |-> "file_storage", backend |-> None],
      [service_type |-> "vectordb",     backend |-> "chromadb"],
      [service_type |-> "vectordb",     backend |-> "qdrant"] }

Configs ==
    { [service_type |-> k.service_type, backend |-> k.backend,
       client_count |-> n, duration |-> d] :
        k \in ServiceKinds, n \in ClientCounts, d \in 1..MaxDuration }

\* UnifiedBenchmarkClient._create_client: the class of the specialised client.
CreateClient(c) ==
    IF c.service_type \in {"ollama", "vllm", "triton"} THEN "BenchmarkClient"
    ELSE IF c.service_type = "database"
         THEN IF c.backend = "postgresql" THEN "PostgreSQLBenchmarkClient"
              ELSE "BenchmarkClient"
    ELSE IF c.service_type = "s3" THEN "S3BenchmarkClient"
    ELSE IF c.service_type = "file_storage" THEN "FileStorageBenchmarkClient"
    ELSE IF c.service_type = "vectordb" THEN "VectorDBBenchmarkClient"
    ELSE "BenchmarkClient"

IsHttp(c) == CreateClient(c) = "BenchmarkClient"

Workers == ClientCounts
Threads(c) == 1..c.client_count

\* ------------------------------------------------------------ executors
\* RequestResult(timestamp, duration, success, status_code, error), tagged with
\* the worker and the attempt that made it.
RequestResult(w, n, ts, dur, success, status, error) ==
    [kind |-> "RequestResult", client |-> w, seq |-> n, timestamp |-> ts,
     duration |-> dur, success |-> success, status_code |-> status,
     error |-> error]

\* What the service answers to one HTTP request: a status code, or the request
\* raises (connection refused, timeout).
HttpResponses == {"200", "500", "exception"}

\* BenchmarkClient.send_request: a response becomes a result with
\* success = (status_code == 200) and no error; an exception becomes a failed
\* result with error = str(e).
send_request(w, n, ts, dur, response) ==
    IF response = "exception"
    THEN RequestResult(w, n, ts, dur, FALSE, None, "error")
    ELSE RequestResult(w, n, ts, dur, response = "200",
                       response, None)

\* The operations of an operation_mix, per specialised client.
Operations(c) ==
    CASE CreateClient(c) = "PostgreSQLBenchmarkClient" ->
            {"select", "insert", "update", "delete"}
      [] CreateClient(c) = "S3BenchmarkClient" -> {"put", "get", "list", "delete"}
      [] CreateClient(c) = "FileStorageBenchmarkClient" ->
            {"write", "read", "stat", "delete"}
      [] CreateClient(c) = "VectorDBBenchmarkClient" ->
            {"insert", "search", "update", "delete"}
      [] OTHER -> {"post"}

VectorBackends == {"chromadb", "faiss", "milvus", "weaviate"}

\* A specialised result (S3RequestResult, ...): timestamp, duration, success, error.
SpecialResult(ts, dur, success, error) ==
    [kind |-> "SpecialResult", timestamp |-> ts, duration |-> dur,
     success |-> success, error |-> error]

\* execute_<op> of a specialised client: the operation runs inside try/except,
\* so a fault becomes a failed result with error = str(e). The vector client
\* dispatches insert, search and update on self.backend with no else branch:
\* for an unlisted backend the method falls off its end and returns None;
\* execute_delete has an else branch and returns a successful result.
execute_operation(c, op, ts, dur, fault) ==
    IF CreateClient(c) = "VectorDBBenchmarkClient" /\ c.backend \notin VectorBackends
    THEN IF op = "delete" THEN SpecialResult(ts, dur, TRUE, None) ELSE NoneResult
    ELSE IF fault THEN SpecialResult(ts, dur, FALSE, "error")
         ELSE SpecialResult(ts, dur, TRUE, None)

\* UnifiedBenchmarkClient._convert_result; reading result.timestamp of None
\* raises AttributeError, which is "raised" here.
_convert_result(w, n, result) ==
    IF result = NoneResult THEN Raised
    ELSE RequestResult(w, n, result.timestamp, result.duration, result.success,
                       IF result.success THEN "200" ELSE "500", result.error)

\* ------------------------------------------------------------ Target Runner
RunnerInit ==
    /\ cfg \in Configs
    /\ now = 0
    /\ runpc = "idle"
    /\ spawned = 0
    /\ wpc = [w \in Workers |-> "unstarted"]
    /\ wstart = [w \in Workers |-> 0]
    /\ opStart = [w \in Workers |-> 0]
    /\ sleepStart = [w \in Workers |-> 0]
    /\ thread_results = [w \in Workers |-> <<>>]
    /\ results = <<>>
    /\ returned = <<>>
    /\ ret = [w \in Workers |-> NoCall.kind]
    /\ attempts = [w \in Workers |-> 0]
    /\ produced = {}

\* The clock advances; it counts from the moment run() is entered.
Tick ==
    /\ runpc \in {"spawning", "joining"}
    /\ now < Horizon
    /\ now' = now + 1
    /\ UNCHANGED <<notRunner, cfg, runpc, spawned, wpc, wstart, opStart, sleepStart,
                   thread_results, results, returned, ret, attempts, produced>>

\* run() is entered: setup, threads = [].
RunBegin ==
    /\ runpc = "idle"
    /\ runpc' = "spawning"
    /\ UNCHANGED <<notRunner, cfg, now, spawned, wpc, wstart, opStart, sleepStart,
                   thread_results, results, returned, ret, attempts, produced>>

\* One iteration of "for i in range(client_count): t = Thread(...); t.start()".
\* The thread begins its loop: start = time.time().
StartThread ==
    /\ runpc = "spawning"
    /\ spawned < cfg.client_count
    /\ spawned' = spawned + 1
    /\ wpc' = [wpc EXCEPT ![spawned + 1] = "check"]
    /\ wstart' = [wstart EXCEPT ![spawned + 1] = now]
    /\ UNCHANGED <<notRunner, cfg, now, runpc, opStart, sleepStart,
                   thread_results, results, returned, ret, attempts, produced>>

\* The spawning loop ends; run() goes on to join the threads.
SpawnDone ==
    /\ runpc = "spawning"
    /\ spawned = cfg.client_count
    /\ runpc' = "joining"
    /\ UNCHANGED <<notRunner, cfg, now, spawned, wpc, wstart, opStart, sleepStart,
                   thread_results, results, returned, ret, attempts, produced>>

\* A loop test that still passes at the deadline.
LoopConditionInclusive(w) == now - wstart[w] <= cfg.duration

\* "while time.time() - start < duration"

LoopCondition(w) == now - wstart[w] < cfg.duration

\* A loop test reached without waiting for the pacing sleep.
AtLoopTestNoSleep(w) == wpc[w] \in {"check", "sleep"}

\* The worker reaches the loop test: on entering the loop, or when
\* time.sleep(interval) returns, which takes at least one interval.
AtLoopTest(w) ==
    \/ wpc[w] = "check"
    \/ wpc[w] = "sleep" /\ now > sleepStart[w]

\* The loop test passes and the worker calls the executor, which takes
\* start_time = time.time().
WorkerStartOp(w) ==
    /\ AtLoopTest(w)
    /\ LoopCondition(w)
    /\ wpc' = [wpc EXCEPT ![w] = "inflight"]
    /\ opStart' = [opStart EXCEPT ![w] = now]
    /\ sleepStart' = [sleepStart EXCEPT ![w] = 0]
    /\ attempts' = [attempts EXCEPT ![w] = @ + 1]
    /\ UNCHANGED <<notRunner, cfg, now, runpc, spawned, wstart,
                   thread_results, results, returned, ret, produced>>

\* BenchmarkClient.run_client: result = self.send_request();
\* self.results.append(result); then time.sleep(interval) is entered.
HttpWorkerComplete(w) ==
    /\ IsHttp(cfg)
    /\ wpc[w] = "inflight"
    /\ \E response \in HttpResponses :
        LET r == send_request(w, attempts[w], opStart[w], now - opStart[w], response)
        IN /\ ret' = [ret EXCEPT ![w] = r.kind]
           /\ produced' = produced \cup {r}
           /\ results' = Append(results, r)
    /\ wpc' = [wpc EXCEPT ![w] = "sleep"]
    /\ sleepStart' = [sleepStart EXCEPT ![w] = now]
    /\ opStart' = [opStart EXCEPT ![w] = 0]
    /\ UNCHANGED <<notRunner, cfg, now, runpc, spawned, wstart,
                   thread_results, returned, attempts>>

\* run_client_thread: result = self.client.execute_operation();
\* converted_result = self._convert_result(result);
\* thread_results.append(converted_result), all inside try; the except clause
\* only logs. Then time.sleep(interval) is entered.
UnifiedWorkerComplete(w) ==
    /\ ~IsHttp(cfg)
    /\ wpc[w] = "inflight"
    /\ \E op \in Operations(cfg), fault \in BOOLEAN :
        LET r == execute_operation(cfg, op, opStart[w], now - opStart[w], fault)
            converted == _convert_result(w, attempts[w], r)
        IN /\ ret' = [ret EXCEPT ![w] = r.kind]
           /\ IF converted = Raised
              THEN UNCHANGED <<thread_results, produced>>
              ELSE /\ thread_results' =
                        [thread_results EXCEPT ![w] = Append(@, converted)]
                   /\ produced' = produced \cup {converted}
    /\ wpc' = [wpc EXCEPT ![w] = "sleep"]
    /\ sleepStart' = [sleepStart EXCEPT ![w] = now]
    /\ opStart' = [opStart EXCEPT ![w] = 0]
    /\ UNCHANGED <<notRunner, cfg, now, runpc, spawned, wstart,
                   results, returned, attempts>>

\* The loop test fails and the thread ends. The unified client's thread is
\* "all_results.extend(run_client_thread(cid))".
WorkerExit(w) ==
    /\ AtLoopTest(w)
    /\ ~LoopCondition(w)
    /\ wpc' = [wpc EXCEPT ![w] = "done"]
    /\ sleepStart' = [sleepStart EXCEPT ![w] = 0]
    /\ results' = IF IsHttp(cfg) THEN results ELSE results \o thread_results[w]
    /\ UNCHANGED <<notRunner, cfg, now, runpc, spawned, wstart, opStart,
                   thread_results, returned, ret, attempts, produced>>

\* A run() that does not wait for its threads.
ReturnWithoutJoin == TRUE

\* "for t in threads: t.join()" has returned for every thread.

AllJoined == \A w \in Threads(cfg) : wpc[w] = "done"

\* run() returns self.results.
RunReturn ==
    /\ runpc = "joining"
    /\ AllJoined
    /\ runpc' = "returned"
    /\ returned' = results
    /\ UNCHANGED <<notRunner, cfg, now, spawned, wpc, wstart, opStart, sleepStart,
                   thread_results, results, ret, attempts, produced>>

RunnerStep ==
    \/ Tick
    \/ RunBegin
    \/ StartThread
    \/ SpawnDone
    \/ \E w \in Workers : WorkerStartOp(w)
    \/ \E w \in Workers : HttpWorkerComplete(w)
    \/ \E w \in Workers : UnifiedWorkerComplete(w)
    \/ \E w \in Workers : WorkerExit(w)
    \/ RunReturn

\* ------------------------------------------------------------ Outcome Sink
\* Two targets' batches are appended through one Monitor, so under one
\* benchmark_id; metrics.db also holds a row of an earlier run.
Writers == {"A", "B"}
CurrentRun == "run1"
EarlierRun == "run0"
RunIds == {EarlierRun, CurrentRun}
Timestamps == 1..MaxTs

\* All sequences over S of length at most n.
SeqsUpTo(S, n) == UNION {[1..k -> S] : k \in 0..n}

\* The metrics lists a caller can pass: each metric is its timestamp.
Batches == SeqsUpTo(Timestamps, MaxBatch)

Row(id, bid, ts, service, n) ==
    [id |-> id, benchmark_id |-> bid, timestamp |-> ts, service_name |-> service,
     n |-> n]

NoQuery == [benchmark_id |-> None, rows |-> <<>>, partial |-> {}, done |-> {}]

\* No scrape of the metrics endpoint yet.
NoScrape == [limit |-> 0, rows |-> <<>>, failed |-> FALSE]

NoLatest == [limit |-> 0, rows |-> <<>>, failed |-> FALSE, appended |-> 0,
             previous |-> NoScrape]

SinkInit ==
    /\ db = <<Row(1, EarlierRun, 1, "earlier", 1)>>
    /\ wlock = None
    /\ spc = [c \in Writers |-> "idle"]
    /\ batch = [c \in Writers |-> <<>>]
    /\ txn = [c \in Writers |-> <<>>]
    /\ lastQuery = NoQuery
    /\ overlapped = FALSE
    /\ lastLatest = NoLatest

\* Monitor.record_metrics(service_name, metrics) enters
\* MetricStorage.store_metrics_batch: sqlite3.connect, conn.cursor.
RecordMetrics(c) ==
    /\ spc[c] = "idle"
    /\ \E metrics \in Batches : batch' = [batch EXCEPT ![c] = metrics]
    /\ spc' = [spc EXCEPT ![c] = "open"]
    /\ overlapped' = (overlapped \/ \E o \in Writers \ {c} : spc[o] = "open")
    /\ UNCHANGED <<notSink, lastLatest, db, wlock, txn, lastQuery>>

\* id INTEGER PRIMARY KEY AUTOINCREMENT: one more than the largest rowid.
NextRowId(c) == Len(db) + Len(txn[c]) + 1

\* One cursor.execute(INSERT ...) of the loop. sqlite3 opens a transaction
\* before the first INSERT, which takes the database's write lock; the row
\* stays in the transaction until conn.commit().
ExecuteInsert(c) ==
    /\ spc[c] = "open"
    /\ Len(txn[c]) < Len(batch[c])
    /\ wlock \in {None, c}
    /\ wlock' = c
    /\ txn' = [txn EXCEPT ![c] = Append(@, Row(NextRowId(c), CurrentRun,
                                              batch[c][Len(txn[c]) + 1], c,
                                              Len(txn[c]) + 1))]
    /\ UNCHANGED <<notSink, lastLatest, overlapped, db, spc, batch, lastQuery>>

\* conn.commit(); conn.close(): the transaction's rows become visible together.
Commit(c) ==
    /\ spc[c] = "open"
    /\ Len(txn[c]) = Len(batch[c])
    /\ db' = db \o txn[c]
    /\ wlock' = IF wlock = c THEN None ELSE wlock
    /\ spc' = [spc EXCEPT ![c] = "done"]
    /\ UNCHANGED <<notSink, lastLatest, overlapped, batch, txn, lastQuery>>

\* A cursor.execute or the commit raises (storage unavailable, database is
\* locked, unsupported value): the exception leaves store_metrics_batch, which
\* has no except or finally clause, with the transaction still open.
StoreRaise(c) ==
    /\ spc[c] = "open"
    /\ spc' = [spc EXCEPT ![c] = "raised"]
    /\ UNCHANGED <<notSink, lastLatest, overlapped, db, wlock, batch, txn, lastQuery>>

\* The connection object is released; SQLite rolls the open transaction back.
ConnectionFinalized(c) ==
    /\ spc[c] = "raised"
    /\ txn' = [txn EXCEPT ![c] = <<>>]
    /\ wlock' = IF wlock = c THEN None ELSE wlock
    /\ spc' = [spc EXCEPT ![c] = "failed"]
    /\ UNCHANGED <<notSink, lastLatest, overlapped, db, batch, lastQuery>>

\* A SELECT with no WHERE clause returns every row.
NoWhere(rows, bid) == rows

\* "WHERE benchmark_id = ?", scanning in rowid order.
WhereBenchmarkId(rows, bid) ==
    SelectSeq(rows, LAMBDA r : r.benchmark_id = bid)

\* Insert row r into the sorted sequence s after every row with a timestamp
\* not larger than its own.
InsertByTimestamp(s, r) ==
    LET before == SelectSeq(s, LAMBDA x : x.timestamp <= r.timestamp)
        after  == SelectSeq(s, LAMBDA x : x.timestamp > r.timestamp)
    IN before \o <<r>> \o after

RECURSIVE SortRows(_, _)
SortRows(sorted, rest) ==
    IF rest = <<>> THEN sorted
    ELSE SortRows(InsertByTimestamp(sorted, Head(rest)), Tail(rest))

\* A SELECT with no ORDER BY clause returns the scan order.
NoOrderBy(rows) == rows

\* "ORDER BY timestamp": SQLite's sorter, fed in scan order, keeps rows with
\* equal keys in the order it received them.
OrderByTimestamp(rows) == SortRows(<<>>, rows)

\* Rows as a connection shared with the writers would see them: with the rows
\* of the open transactions.
DirtyRows == db \o txn["A"] \o txn["B"]

\* get_metrics opens its own connection (sqlite3.connect), which sees the
\* committed rows only.
CommittedRows == db

\* MetricStorage.get_metrics(benchmark_id): one SELECT.
get_metrics(bid) == OrderByTimestamp(WhereBenchmarkId(CommittedRows, bid))

\* Monitor.get_data(benchmark_id). The call is remembered with the writers
\* that had inserted part of their batch, and those that had committed.
GetData ==
    /\ \E bid \in RunIds :
        lastQuery' = [benchmark_id |-> bid,
                      rows |-> get_metrics(bid),
                      partial |-> {c \in Writers : spc[c] \in {"open", "raised"}
                                                  /\ Len(txn[c]) > 0},
                      done |-> {c \in Writers : spc[c] = "done"}]
    /\ UNCHANGED <<notSink, lastLatest, overlapped, db, wlock, spc, batch, txn>>

\* "ORDER BY timestamp DESC": the sorter, fed in scan (rowid) order, puts a
\* row after every row with a timestamp not smaller than its own.
InsertByTimestampDesc(s, r) ==
    LET before == SelectSeq(s, LAMBDA x : x.timestamp >= r.timestamp)
        after  == SelectSeq(s, LAMBDA x : x.timestamp < r.timestamp)
    IN before \o <<r>> \o after

RECURSIVE SortRowsDesc(_, _)
SortRowsDesc(sorted, rest) ==
    IF rest = <<>> THEN sorted
    ELSE SortRowsDesc(InsertByTimestampDesc(sorted, Head(rest)), Tail(rest))

OrderByTimestampDesc(rows) == SortRowsDesc(<<>>, rows)

\* "LIMIT ?"
Limit(rows, limit) ==
    SubSeq(rows, 1, IF limit < Len(rows) THEN limit ELSE Len(rows))

\* MetricsExporter.get_latest_metrics(limit): one SELECT over every run,
\* through its own connection; any exception is logged and [] is returned.
get_latest_metrics(limit, fault) ==
    IF fault THEN <<>>
    ELSE Limit(OrderByTimestampDesc(CommittedRows), limit)

\* The metrics endpoint reads the latest metrics. The call is remembered with
\* the number of rows that were committed when it ran, and with the scrape
\* before it.
GetLatestMetrics ==
    /\ \E limit \in 1..MaxLimit, fault \in BOOLEAN :
        lastLatest' = [limit |-> limit,
                       rows |-> get_latest_metrics(limit, fault),
                       failed |-> fault,
                       appended |-> Len(db),
                       previous |-> [limit |-> lastLatest.limit,
                                     rows |-> lastLatest.rows,
                                     failed |-> lastLatest.failed]]
    /\ UNCHANGED <<notSink, overlapped, db, wlock, spc, batch, txn, lastQuery>>

SinkStep ==
    \/ \E c \in Writers : RecordMetrics(c)
    \/ \E c \in Writers : ExecuteInsert(c)
    \/ \E c \in Writers : Commit(c)
    \/ \E c \in Writers : StoreRaise(c)
    \/ \E c \in Writers : ConnectionFinalized(c)
    \/ GetData

\* The writers of the sink with the metrics endpoint as the reader.
ExporterStep ==
    \/ \E c \in Writers : RecordMetrics(c)
    \/ \E c \in Writers : ExecuteInsert(c)
    \/ \E c \in Writers : Commit(c)
    \/ \E c \in Writers : StoreRaise(c)
    \/ \E c \in Writers : ConnectionFinalized(c)
    \/ GetLatestMetrics

\* ------------------------------------------------------------ Aggregator
\* Durations are whole milliseconds and timestamps whole milliseconds; a
\* quotient the code computes in floating point is kept as an exact fraction.
Frac(num, den) == [num |-> num, den |-> den]

FracEq(a, b) == a.num * b.den = b.num * a.den

FracLeq(a, b) == a.num * b.den <= b.num * a.den

\* An empty dict.
EmptyDict == [k \in {} |-> 0]

RECURSIVE Sum(_)
Sum(data) == IF data = <<>> THEN 0 ELSE Head(data) + Sum(Tail(data))

SumOfSquares(data) == Sum([i \in 1..Len(data) |-> data[i] * data[i]])

\* min(data) and max(data) of a non-empty list.
Min(data) == CHOOSE x \in Range(data) : \A y \in Range(data) : x <= y

Max(data) == CHOOSE x \in Range(data) : \A y \in Range(data) : x >= y

InsertSorted(data, x) ==
    SelectSeq(data, LAMBDA y : y <= x) \o <<x>> \o SelectSeq(data, LAMBDA y : y > x)

RECURSIVE SortInto(_, _)
SortInto(done, rest) ==
    IF rest = <<>> THEN done
    ELSE SortInto(InsertSorted(done, Head(rest)), Tail(rest))

\* A list left in the order it came in.
unsorted(data) == data

\* sorted(data)
sorted(data) == SortInto(<<>>, data)

\* A percentile that takes the value at the lower index, with no
\* interpolation.
_percentile_lower(sorted_data, percentile) ==
    IF sorted_data = <<>> THEN Frac(0, 1)
    ELSE Frac(sorted_data[((Len(sorted_data) - 1) * percentile) \div 100 + 1], 1)

\* BenchmarkReporter._percentile(sorted_data, percentile), with 0-based
\* indices turned into 1-based ones: index = (n - 1) * percentile / 100,
\* lower = int(index), upper = lower + 1, weight = index - lower.
_percentile(sorted_data, percentile) ==
    IF sorted_data = <<>> THEN Frac(0, 1)
    ELSE LET index100 == (Len(sorted_data) - 1) * percentile
             lower == index100 \div 100
             upper == lower + 1
             weight100 == index100 - 100 * lower
         IN IF upper >= Len(sorted_data)
            THEN Frac(sorted_data[Len(sorted_data)], 1)
            ELSE Frac(sorted_data[lower + 1] * (100 - weight100)
                        + sorted_data[upper + 1] * weight100, 100)

\* statistics.mean(data) of a non-empty list.
mean(data) == Frac(Sum(data), Len(data))

\* statistics.median(data) of a non-empty list: the middle value, or the mean
\* of the two middle values.
median(data) ==
    LET s == sorted(data)
        n == Len(data)
    IN IF n % 2 = 1 THEN Frac(s[n \div 2 + 1], 1)
       ELSE Frac(s[n \div 2] + s[n \div 2 + 1], 2)

\* The square of statistics.pstdev(data): the sum of squared deviations from
\* the mean divided by n.
pstdev_squared(data) ==
    Frac(Len(data) * SumOfSquares(data) - Sum(data) * Sum(data),
         Len(data) * Len(data))

\* The square of statistics.stdev(data), for two values or more: the sum of
\* squared deviations from the mean divided by n - 1.
stdev_squared(data) ==
    Frac(Len(data) * SumOfSquares(data) - Sum(data) * Sum(data),
         Len(data) * (Len(data) - 1))

\* [m for m in metrics if m.get('success')] and its complement.
Successful(metrics) == SelectSeq(metrics, LAMBDA m : m.success)

\* A failed list that takes every metric, failed or not.
FailedOrNot(metrics) == metrics

FailedMetrics(metrics) == SelectSeq(metrics, LAMBDA m : ~m.success)

RequestDurations(metrics) == [i \in 1..Len(metrics) |-> metrics[i].request_duration]

StartTimestamps(metrics) == [i \in 1..Len(metrics) |-> metrics[i].timestamp]

\* The end of each request: its start timestamp plus its duration.
EndTimestamps(metrics) ==
    [i \in 1..Len(metrics) |-> metrics[i].timestamp + metrics[i].request_duration]

\* A throughput over the span from the first start to the last end.
_calculate_throughput_to_end(metrics) ==
    IF metrics = <<>> THEN [requests_per_second |-> Frac(0, 1)]
    ELSE LET duration == Max(EndTimestamps(metrics)) - Min(StartTimestamps(metrics))
         IN [requests_per_second |->
                IF duration > 0 THEN Frac(Len(metrics), duration) ELSE Frac(0, 1),
             duration_seconds |-> duration]

\* BenchmarkReporter._calculate_throughput(metrics):
\* duration = max(timestamps) - min(timestamps).
_calculate_throughput(metrics) ==
    IF metrics = <<>> THEN [requests_per_second |-> Frac(0, 1)]
    ELSE LET duration == Max(StartTimestamps(metrics)) - Min(StartTimestamps(metrics))
         IN [requests_per_second |->
                IF duration > 0 THEN Frac(Len(metrics), duration) ELSE Frac(0, 1),
             duration_seconds |-> duration]

\* The five timing statistics of a list of durations; stdev_duration holds the
\* square of the standard deviation.
Timing(durations) ==
    [avg_duration |-> IF durations # <<>> THEN mean(durations) ELSE Frac(0, 1),
     median_duration |-> IF durations # <<>> THEN median(durations) ELSE Frac(0, 1),
     min_duration |-> IF durations # <<>> THEN Min(durations) ELSE 0,
     max_duration |-> IF durations # <<>> THEN Max(durations) ELSE 0,
     stdev_duration |->
        IF Len(durations) > 1 THEN stdev_squared(durations) ELSE Frac(0, 1)]

PercentileKeys == {"p50", "p90", "p95", "p99"}

PercentileOf(key) ==
    CASE key = "p50" -> 50 [] key = "p90" -> 90 [] key = "p95" -> 95
      [] key = "p99" -> 99

\* BenchmarkReporter._analyze_service_metrics(metrics). The per-client counts
\* are left out: the metrics here carry no client_id.
_analyze_service_metrics(metrics) ==
    LET successful == Successful(metrics)
        failed == FailedMetrics(metrics)
        durations == RequestDurations(successful)
        sorted_durations == sorted(durations)
    IN [total_requests |-> Len(metrics),
        successful |-> Len(successful),
        failed |-> Len(failed),
        success_rate |->
            IF metrics # <<>> THEN Frac(Len(successful) * 100, Len(metrics))
            ELSE Frac(0, 1),
        timing |-> Timing(durations),
        percentiles |->
            IF durations # <<>>
            THEN [key \in PercentileKeys |->
                    _percentile(sorted_durations, PercentileOf(key))]
            ELSE EmptyDict,
        throughput |-> _calculate_throughput(metrics)]

ServiceNames(metrics) == {metrics[i].service_name : i \in 1..Len(metrics)}

\* BenchmarkReporter.generate_report(metrics): {} for no metrics, otherwise
\* the global summary and one analysis per service_name.
generate_report(metrics) ==
    IF metrics = <<>> THEN EmptyDict
    ELSE LET all_durations == RequestDurations(Successful(metrics)) IN
         [benchmark_id |-> CurrentRun,
          summary |->
            [total_requests |-> Len(metrics),
             successful_requests |-> Len(Successful(metrics)),
             failed_requests |-> Len(FailedMetrics(metrics)),
             success_rate |-> Frac(Len(Successful(metrics)) * 100, Len(metrics)),
             avg_duration |-> Timing(all_durations).avg_duration,
             median_duration |-> Timing(all_durations).median_duration,
             min_duration |-> Timing(all_durations).min_duration,
             max_duration |-> Timing(all_durations).max_duration,
             stdev_duration |-> Timing(all_durations).stdev_duration],
          services |->
            [service_name \in ServiceNames(metrics) |->
                _analyze_service_metrics(
                    SelectSeq(metrics, LAMBDA m : m.service_name = service_name))]]

\* ------------------------------------------------------------ Exposition Encoder
\* A sample line of the exposition text: metric name, service label, value;
\* a bucket line also has its le label. The comment lines, the benchmark_id
\* label and the response-size gauge are left out.
Sample(name, service, value) == [name |-> name, service |-> service, value |-> value]

Le(bound) == [inf |-> FALSE, bound |-> bound]

PlusInf == [inf |-> TRUE, bound |-> 0]

BucketSample(service, le, value) ==
    [name |-> "benchmark_request_duration_seconds_bucket", service |-> service,
     le |-> le, value |-> value]

\* buckets of PrometheusExporter.export_metrics, in milliseconds.
ExportMetricsBuckets == <<1, 10, 100, 500, 1000, 2000, 5000, 10000>>

\* buckets of MetricsExporter.export_prometheus_format, in milliseconds.
ExportPrometheusFormatBuckets == <<1, 10, 100, 500, 1000, 2500, 5000, 10000>>

\* The keys of service_metrics in the order of their names, whatever the
\* order of the metrics.
ServiceKeysByName(seen, metrics) ==
    LET names == {metrics[i].service_name : i \in 1..Len(metrics)}
    IN IF names = {} THEN <<>>
       ELSE IF "svc-a" \in names /\ "svc-b" \in names THEN <<"svc-a", "svc-b">>
       ELSE <<CHOOSE n \in names : TRUE>>

\* The keys of service_metrics in insertion order: each service_name at its
\* first appearance.
RECURSIVE ServiceKeys(_, _)
ServiceKeys(seen, metrics) ==
    IF metrics = <<>> THEN seen
    ELSE ServiceKeys(IF Head(metrics).service_name \in Range(seen) THEN seen
                     ELSE Append(seen, Head(metrics).service_name),
                     Tail(metrics))

\* The grouping loop: total, successful, failed and the durations of every
\* metric of the service, successful or not.
ServiceStats(metrics, service) ==
    LET mine == SelectSeq(metrics, LAMBDA m : m.service_name = service)
    IN [total |-> Len(mine),
        successful |-> Len(Successful(mine)),
        failed |-> Len(FailedMetrics(mine)),
        durations |-> RequestDurations(mine)]

\* A bucket count that takes the durations above the bound.
BucketCountAbove(durations, bucket) == Len(SelectSeq(durations, LAMBDA d : d > bucket))

\* sum(1 for d in durations if d <= bucket)
BucketCount(durations, bucket) == Len(SelectSeq(durations, LAMBDA d : d <= bucket))

\* The names of the sample lines of one service, in the order they are
\* appended.
SampleNames ==
    <<"benchmark_requests_total", "benchmark_requests_successful",
      "benchmark_requests_failed", "benchmark_request_duration_seconds_sum",
      "benchmark_request_duration_seconds_count",
      "benchmark_request_duration_seconds_bucket">>

\* The lines of one service: the three counters, then _sum, _count, one
\* bucket line per bound with the durations <= bound, and the +Inf bucket.
ServiceLines(service, stats, buckets) ==
    LET durations == sorted(stats.durations)
    IN <<Sample("benchmark_requests_total", service, stats.total),
         Sample("benchmark_requests_successful", service, stats.successful),
         Sample("benchmark_requests_failed", service, stats.failed)>>
       \o (IF durations # <<>>
           THEN <<Sample("benchmark_request_duration_seconds_sum", service,
                         Sum(durations)),
                  Sample("benchmark_request_duration_seconds_count", service,
                         Len(durations))>>
                \o [b \in 1..Len(buckets) |->
                       BucketSample(service, Le(buckets[b]),
                                    BucketCount(durations, buckets[b]))]
                \o <<BucketSample(service, PlusInf, Len(durations))>>
           ELSE <<>>)

RECURSIVE ExpositionLines(_, _, _)
ExpositionLines(keys, metrics, buckets) ==
    IF keys = <<>> THEN <<>>
    ELSE ServiceLines(Head(keys), ServiceStats(metrics, Head(keys)), buckets)
         \o ExpositionLines(Tail(keys), metrics, buckets)

\* PrometheusExporter.export_metrics over metrics_data = monitor.get_data().
export_metrics(metrics_data) ==
    ExpositionLines(ServiceKeys(<<>>, metrics_data), metrics_data,
                    ExportMetricsBuckets)

\* MetricsExporter.export_prometheus_format(metrics).
export_prometheus_format(metrics) ==
    IF metrics = <<>> THEN <<[name |-> "# No metrics available"]>>
    ELSE ExpositionLines(ServiceKeys(<<>>, metrics), metrics,
                         ExportPrometheusFormatBuckets)

\* ------------------------------------------------------------ Aggregator calls
\* The metrics a caller can pass: two services, durations of 1 ms, 300 ms and
\* 2.2 s, start timestamps one second apart.
AggServices == {"svc-a", "svc-b"}

AggDurations == {1, 300, 2200}

AggTimestamps == {0, 1000}

Metrics ==
    [service_name : AggServices, success : BOOLEAN,
     request_duration : AggDurations, timestamp : AggTimestamps]

PercentileArgs == {0, 25, 50, 90, 95, 99, 100}

NoOutput == [op |-> "none", arg |-> 0, value |-> <<>>]

\* The list has not been encoded a second time.
NotReencoded == [done |-> FALSE, value |-> <<>>]

IdleAgg == metrics_in = <<>> /\ output = NoOutput /\ reencoded = NotReencoded

\* The lists come from the sink: monitor.get_data() returns them ORDER BY
\* timestamp, get_latest_metrics ORDER BY timestamp DESC.
Ascending(metrics) ==
    \A i \in 1..(Len(metrics) - 1) : metrics[i].timestamp <= metrics[i + 1].timestamp

Descending(metrics) ==
    \A i \in 1..(Len(metrics) - 1) : metrics[i].timestamp >= metrics[i + 1].timestamp

AggInit ==
    /\ metrics_in \in {metrics \in SeqsUpTo(Metrics, MaxOutcomes) :
                          Ascending(metrics) \/ Descending(metrics)}
    /\ output = NoOutput
    /\ reencoded = NotReencoded

\* Each behaviour applies one operation to the list it starts with.
GenerateReport ==
    /\ output = NoOutput
    /\ output' = [op |-> "generate_report", arg |-> 0,
                  value |-> generate_report(metrics_in)]
    /\ UNCHANGED <<notAgg, metrics_in, reencoded>>

\* _percentile on the sorted durations of the successful metrics.
Percentile ==
    /\ output = NoOutput
    /\ \E percentile \in PercentileArgs :
        output' = [op |-> "_percentile", arg |-> percentile,
                   value |-> _percentile(
                        sorted(RequestDurations(Successful(metrics_in))),
                        percentile)]
    /\ UNCHANGED <<notAgg, metrics_in, reencoded>>

ExportMetrics ==
    /\ output = NoOutput
    /\ output' = [op |-> "export_metrics", arg |-> 0,
                  value |-> export_metrics(metrics_in)]
    /\ UNCHANGED <<notAgg, metrics_in, reencoded>>

ExportPrometheusFormat ==
    /\ output = NoOutput
    /\ output' = [op |-> "export_prometheus_format", arg |-> 0,
                  value |-> export_prometheus_format(metrics_in)]
    /\ UNCHANGED <<notAgg, metrics_in, reencoded>>

\* The encoder that produced the output is called once more on the same
\* list: the next scrape, or the next export_metrics call, with the sink
\* unchanged.
ExportAgain ==
    /\ output.op \in {"export_metrics", "export_prometheus_format"}
    /\ reencoded = NotReencoded
    /\ reencoded' = [done |-> TRUE,
                     value |-> IF output.op = "export_metrics"
                               THEN export_metrics(metrics_in)
                               ELSE export_prometheus_format(metrics_in)]
    /\ UNCHANGED <<notAgg, metrics_in, output>>

AggStep ==
    \/ GenerateReport
    \/ Percentile
    \/ ExportMetrics
    \/ ExportPrometheusFormat
    \/ ExportAgain

\* ------------------------------------------------------------ Operation mix
\* Weights and draws are counted in tenths: a weight of 3 is 0.3, and
\* random.random() returns a value in [0, 1), so a draw is below 10.
SpecialisedClients ==
    {"PostgreSQLBenchmarkClient", "S3BenchmarkClient",
     "FileStorageBenchmarkClient", "VectorDBBenchmarkClient"}

\* The operation names the if / elif chain of execute_operation knows.
SupportedOperations(client) ==
    CASE client = "PostgreSQLBenchmarkClient" -> {"select", "insert", "update", "delete"}
      [] client = "S3BenchmarkClient" -> {"put", "get", "list", "delete"}
      [] client = "FileStorageBenchmarkClient" -> {"write", "read", "stat", "delete"}
      [] client = "VectorDBBenchmarkClient" -> {"insert", "search", "update", "delete"}

\* The operation executed after the loop: "Default to ... if something goes
\* wrong".
DefaultOperation(client) ==
    CASE client = "PostgreSQLBenchmarkClient" -> "select"
      [] client = "S3BenchmarkClient" -> "put"
      [] client = "FileStorageBenchmarkClient" -> "write"
      [] client = "VectorDBBenchmarkClient" -> "search"

\* A key of operation_mix that is none of the client's operations.
UnknownOperation == "head"

MixWeights == {0, 3, 5}

MixDraws == {0, 2, 4, 6, 9}

MixLengths == {1, 2}

\* The operation_mix dicts of a client: keys are distinct.
OperationMixes(client) ==
    LET keys == SupportedOperations(client) \cup {UnknownOperation}
        items == [operation : keys, weight : MixWeights]
    IN { mix \in UNION { [1..n -> items] : n \in MixLengths } :
            \A i, j \in DOMAIN mix : i # j => mix[i].operation # mix[j].operation }

\* A selection that compares the draw with each weight, not with the
\* cumulative sum.
SelectByWeight(client, mix, rand, i, cumulative) ==
    LET hit == {j \in i..Len(mix) :
                    /\ rand <= mix[j].weight
                    /\ mix[j].operation \in SupportedOperations(client)}
    IN IF hit = {} THEN DefaultOperation(client)
       ELSE mix[CHOOSE j \in hit : \A k \in hit : j <= k].operation

\* The loop of execute_operation from item i on: cumulative += weight; if
\* rand <= cumulative, a known operation is executed and returned, an
\* unknown one matches no branch and the loop goes on; after the loop the
\* default operation is executed.
RECURSIVE SelectOperation(_, _, _, _, _)
SelectOperation(client, mix, rand, i, cumulative) ==
    IF i > Len(mix) THEN DefaultOperation(client)
    ELSE LET sum == cumulative + mix[i].weight
         IN IF rand <= sum /\ mix[i].operation \in SupportedOperations(client)
            THEN mix[i].operation
            ELSE SelectOperation(client, mix, rand, i + 1, sum)

\* No execute_operation call has been made.
NotExecuted == [rand |-> 0, operations |-> <<>>]

IdleMix ==
    /\ mixClient = None
    /\ operation_mix = <<>>
    /\ executed = NotExecuted

MixInit ==
    /\ mixClient \in SpecialisedClients
    /\ operation_mix \in OperationMixes(mixClient)
    /\ executed = NotExecuted

\* One execute_operation call: rand = random.random(), then the loop; the
\* operations it ran are recorded.
ExecuteOperation ==
    /\ \E rand \in MixDraws :
        executed' = [rand |-> rand,
                     operations |->
                        <<SelectOperation(mixClient, operation_mix, rand, 1, 0)>>]
    /\ UNCHANGED <<notMix, mixClient, operation_mix>>

MixStep == ExecuteOperation

\* ------------------------------------------------------------ Shared resource list
\* The worker threads of UnifiedBenchmarkClient.run all call
\* self.client.execute_operation() on the one specialised client, whose list
\* of created identifiers is a plain list with no lock. The S3 and the
\* file-storage client pop from it, the vector client samples and removes.
RaceClients == {"S3BenchmarkClient", "FileStorageBenchmarkClient",
                "VectorDBBenchmarkClient"}

RaceWorkers == {1, 2}

Remove(list, id) == SelectSeq(list, LAMBDA x : x # id)

IdleRace ==
    /\ raceClient = None
    /\ created_objects = <<>>
    /\ next_id = 0
    /\ dpc = [w \in RaceWorkers |-> "idle"]
    /\ ids_to_delete = [w \in RaceWorkers |-> 0]
    /\ deleted = <<>>
    /\ opFailed = {}

RaceInit ==
    /\ raceClient \in RaceClients
    /\ created_objects = <<>>
    /\ next_id = 0
    /\ dpc = [w \in RaceWorkers |-> "idle"]
    /\ ids_to_delete = [w \in RaceWorkers |-> 0]
    /\ deleted = <<>>
    /\ opFailed = {}

\* execute_put / execute_write / execute_insert: the resource is created
\* and its identifier appended to the list.
ExecutePut(w) ==
    /\ dpc[w] = "idle"
    /\ next_id < MaxIds
    /\ next_id' = next_id + 1
    /\ created_objects' = Append(created_objects, next_id + 1)
    /\ UNCHANGED <<notRace, raceClient, dpc, ids_to_delete, deleted, opFailed>>

\* execute_delete up to its test of the list: "if self.created_objects:"
\* passes; the vector client goes on to ids_to_delete =
\* random.sample(self.inserted_ids, delete_count), with one id per batch.
DeleteCheck(w) ==
    /\ dpc[w] = "idle"
    /\ created_objects # <<>>
    /\ IF raceClient = "VectorDBBenchmarkClient"
       THEN \E i \in 1..Len(created_objects) :
                /\ ids_to_delete' = [ids_to_delete EXCEPT ![w] = created_objects[i]]
                /\ dpc' = [dpc EXCEPT ![w] = "sampled"]
       ELSE /\ dpc' = [dpc EXCEPT ![w] = "checked"]
            /\ UNCHANGED ids_to_delete
    /\ UNCHANGED <<notRace, raceClient, created_objects, next_id, deleted, opFailed>>

\* S3 and file storage: self.created_objects.pop(random.randrange(len(
\* self.created_objects))), then the backend delete of the popped key.
\* randrange(0) raises ValueError, which the except clause turns into a
\* result with success=False.
DeletePop(w) ==
    /\ dpc[w] = "checked"
    /\ dpc' = [dpc EXCEPT ![w] = "idle"]
    /\ IF created_objects = <<>>
       THEN /\ opFailed' = opFailed \cup {w}
            /\ UNCHANGED <<created_objects, deleted>>
       ELSE /\ \E i \in 1..Len(created_objects) :
                /\ deleted' = Append(deleted, created_objects[i])
                /\ created_objects' = Remove(created_objects, created_objects[i])
            /\ UNCHANGED opFailed
    /\ UNCHANGED <<notRace, raceClient, next_id, ids_to_delete>>

\* Vector client: self.collection.delete(ids=ids_to_delete), then
\* self.inserted_ids.remove(id_val) for each id, which raises ValueError for
\* an id that is no longer in the list; the except clause turns it into a
\* result with success=False.
DeleteRemove(w) ==
    /\ dpc[w] = "sampled"
    /\ dpc' = [dpc EXCEPT ![w] = "idle"]
    /\ deleted' = Append(deleted, ids_to_delete[w])
    /\ IF ids_to_delete[w] \in Range(created_objects)
       THEN /\ created_objects' = Remove(created_objects, ids_to_delete[w])
            /\ UNCHANGED opFailed
       ELSE /\ opFailed' = opFailed \cup {w}
            /\ UNCHANGED created_objects
    /\ ids_to_delete' = [ids_to_delete EXCEPT ![w] = 0]
    /\ UNCHANGED <<notRace, raceClient, next_id>>

RaceStep ==
    \/ \E w \in RaceWorkers : ExecutePut(w)
    \/ \E w \in RaceWorkers : DeleteCheck(w)
    \/ \E w \in RaceWorkers : DeletePop(w)
    \/ \E w \in RaceWorkers : DeleteRemove(w)

\* ------------------------------------------------------------ Orchestrator
Targets == 1..NTargets

MetricLists == SeqsUpTo(BOOLEAN, MaxMetrics)

\* How the benchmark of one target goes: create_benchmark_client raises,
\* client.setup() returns False, client.run() raises, client.run() returns
\* an empty list, or it returns Outcomes.
Fates == {"create_raises", "setup_false", "run_raises", "run_empty", "ok"}

\* A future that is not done yet.
Pending == [metrics |-> <<>>, success |-> FALSE, raised |-> FALSE]

\* The value of benchmark_results[service_name]: (metrics, success).
Entry(metrics, success) == [metrics |-> metrics, success |-> success]

\* benchmark_results[name] = entry, on a dict.
SetItem(dict, name, entry) == (name :> entry) @@ dict

\* _benchmark_single_service with no except clauses: an exception of client
\* creation or of the run propagates to the caller.
BenchmarkSingleServiceNoCatch(f, metrics) ==
    IF f = "ok" THEN [metrics |-> metrics, success |-> TRUE, raised |-> FALSE]
    ELSE [metrics |-> <<>>, success |-> FALSE,
          raised |-> f \in {"create_raises", "run_raises", "run_empty"}]

\* BenchmarkOrchestrator._benchmark_single_service: the tuple it returns.
\* A failed setup returns (name, [], False); every exception is caught and
\* returns (name, [], False); an empty result list makes
\* summary['success_rate'] raise KeyError, which is caught the same way.
BenchmarkSingleService(f, metrics) ==
    IF f = "ok" THEN [metrics |-> metrics, success |-> TRUE, raised |-> FALSE]
    ELSE [metrics |-> <<>>, success |-> FALSE, raised |-> FALSE]

\* The metrics of a fate: only a run that returns Outcomes has any.
FateMetrics(f) == IF f = "ok" THEN MetricLists \ {<<>>} ELSE {<<>>}

\* The metrics of target t as the Monitor stores them: after client.run()
\* has returned, interceptor.record_metrics is called once per result with
\* its duration, success, status and size, and stamps timestamp =
\* time.time(). Operation i of the run started at time i (result.timestamp,
\* kept here as op_start) and lasted 1; the run of n operations is over at
\* time n, and result i is recorded at time n + i.
SinkRows(t, metrics) ==
    [i \in 1..Len(metrics) |->
        [service_name |-> t, n |-> i, success |-> metrics[i],
         request_duration |-> 1, op_start |-> i,
         timestamp |-> Len(metrics) + i]]

\* No report has been generated yet.
NoReport == [pending |-> TRUE]

\* The service_config of a target as interface.get_services_info() returns
\* it from the recipe.
ServiceConfig == [service_url |-> "http://recipe"]

\* The URL step 3.5 stored in service_endpoints for a target: http://<node>
\* of the compute node the service runs on.
EndpointUrl == "http://node"

\* The head of _benchmark_single_service: if service_name in
\* service_endpoints, service_config['service_url'] =
\* service_endpoints[service_name].
UseEndpoint(config, t) ==
    IF t \in service_endpoints
    THEN [config EXCEPT !.service_url = EndpointUrl]
    ELSE config

OrchInit ==
    /\ parallel \in BOOLEAN
    /\ max_workers \in 1..NTargets
    /\ opc = "step3.5"
    /\ raisedError = "none"
    /\ service_endpoints = {}
    /\ tstate = [t \in Targets |-> "pending"]
    /\ fate = [t \in Targets |-> "none"]
    /\ outcomes = [t \in Targets |-> <<>>]
    /\ future = [t \in Targets |-> Pending]
    /\ benchmark_results = <<>>
    /\ sink = <<>>
    /\ sinkFailed = {}
    /\ report = NoReport
    /\ services_config = [t \in Targets |-> ServiceConfig]
    /\ services = [t \in Targets |-> "started"]
    /\ invocations = [t \in Targets |-> 0]

\* Step 3.5, one iteration of "for service_manager in self.services": up to
\* max_retries calls of get_service_url, 3 seconds apart. A URL is stored in
\* service_endpoints; without one, RuntimeError is raised, which
\* run_benchmark logs and raises again. After the last service step 4 begins.
RetrieveEndpoint(t) ==
    /\ opc = "step3.5"
    /\ t \notin service_endpoints
    /\ \A u \in Targets : u < t => u \in service_endpoints
    /\ \E endpoint_url \in {"url", None} :
        IF endpoint_url # None
        THEN /\ service_endpoints' = service_endpoints \cup {t}
             /\ opc' = IF service_endpoints' = Targets THEN "step4" ELSE "step3.5"
             /\ UNCHANGED raisedError
        ELSE /\ opc' = "raised"
             /\ raisedError' = "RuntimeError"
             /\ UNCHANGED service_endpoints
    /\ UNCHANGED <<notOrch, parallel, max_workers, tstate, fate, outcomes, future,
                   benchmark_results, sink, sinkFailed, report,
                   services_config, services, invocations>>

\* max_workers = min(len(services_config), self.max_workers)
PoolSize == IF NTargets < max_workers THEN NTargets ELSE max_workers

\* A pool thread takes the next submitted task from the executor's queue.
TaskStart(t) ==
    /\ opc = "step4"
    /\ parallel
    /\ tstate[t] = "pending"
    /\ \A u \in Targets : u < t => tstate[u] # "pending"
    /\ Cardinality({u \in Targets : tstate[u] = "running"}) < PoolSize
    /\ tstate' = [tstate EXCEPT ![t] = "running"]
    /\ services_config' =
            [services_config EXCEPT ![t] = UseEndpoint(services_config[t], t)]
    /\ invocations' = [invocations EXCEPT ![t] = @ + 1]
    /\ UNCHANGED <<notOrch, parallel, max_workers, opc, raisedError,
                   service_endpoints,
                   fate, outcomes, future, benchmark_results, sink, sinkFailed, report, services>>

\* _benchmark_single_service ends in its pool thread; the future is done.
TaskFinish(t) ==
    /\ opc = "step4"
    /\ parallel
    /\ tstate[t] = "running"
    /\ \E f \in Fates : \E metrics \in FateMetrics(f) :
        /\ fate' = [fate EXCEPT ![t] = f]
        /\ outcomes' = [outcomes EXCEPT ![t] = metrics]
        /\ future' = [future EXCEPT ![t] = BenchmarkSingleService(f, metrics)]
    /\ tstate' = [tstate EXCEPT ![t] = "finished"]
    /\ UNCHANGED <<notOrch, parallel, max_workers, opc, raisedError,
                   service_endpoints,
                   benchmark_results, sink, sinkFailed, report,
                   services_config, services, invocations>>

\* An as_completed that yields a done future again after it was processed.
CompletedOrProcessed(t) == tstate[t] \in {"finished", "processed"}

\* as_completed yields each future once, when it is done.
Completed(t) == tstate[t] = "finished"

\* One iteration of "for future in as_completed(future_to_service)":
\* future.result(), benchmark_results[name] = (metrics, success),
\* monitor.record_metrics under the lock; "except Exception" logs and sets
\* benchmark_results[name] = ([], False).
ProcessCompleted(t) ==
    /\ opc = "step4"
    /\ parallel
    /\ Completed(t)
    /\ \E sinkFault \in BOOLEAN :
        IF future[t].raised
        THEN /\ benchmark_results' = SetItem(benchmark_results, t, Entry(<<>>, FALSE))
             /\ UNCHANGED <<sink, sinkFailed, report>>
        ELSE IF sinkFault
        THEN /\ benchmark_results' = SetItem(benchmark_results, t, Entry(<<>>, FALSE))
             /\ sinkFailed' = sinkFailed \cup {t}
             /\ UNCHANGED sink
        ELSE /\ benchmark_results' =
                    SetItem(benchmark_results, t,
                            Entry(future[t].metrics, future[t].success))
             /\ sink' = sink \o SinkRows(t, future[t].metrics)
             /\ UNCHANGED sinkFailed
    /\ tstate' = [tstate EXCEPT ![t] = "processed"]
    /\ UNCHANGED <<notOrch, parallel, max_workers, opc, raisedError,
                   service_endpoints,
                   fate, outcomes, future, report,
                   services_config, services, invocations>>

\* One iteration of the sequential loop: _benchmark_single_service,
\* benchmark_results[name] = (metrics, success), monitor.record_metrics. An
\* exception leaves the loop for run_benchmark's "except Exception: ... raise".
SequentialIteration(t) ==
    /\ opc = "step4"
    /\ ~parallel
    /\ tstate[t] = "pending"
    /\ \A u \in Targets : u < t => tstate[u] = "processed"
    /\ \E f \in Fates : \E metrics \in FateMetrics(f) : \E sinkFault \in BOOLEAN :
        LET r == BenchmarkSingleService(f, metrics)
        IN /\ services_config' =
                [services_config EXCEPT ![t] = UseEndpoint(services_config[t], t)]
           /\ invocations' = [invocations EXCEPT ![t] = @ + 1]
           /\ fate' = [fate EXCEPT ![t] = f]
           /\ outcomes' = [outcomes EXCEPT ![t] = metrics]
           /\ future' = [future EXCEPT ![t] = r]
           /\ IF r.raised
              THEN /\ opc' = "raised"
                   /\ raisedError' = "TargetError"
                   /\ tstate' = [tstate EXCEPT ![t] = "finished"]
                   /\ UNCHANGED <<benchmark_results, sink, sinkFailed, report>>
              ELSE IF sinkFault
              THEN /\ opc' = "raised"
                   /\ raisedError' = "SinkError"
                   /\ tstate' = [tstate EXCEPT ![t] = "finished"]
                   /\ benchmark_results' =
                        SetItem(benchmark_results, t, Entry(r.metrics, r.success))
                   /\ sinkFailed' = sinkFailed \cup {t}
                   /\ UNCHANGED sink
              ELSE /\ tstate' = [tstate EXCEPT ![t] = "processed"]
                   /\ benchmark_results' =
                        SetItem(benchmark_results, t, Entry(r.metrics, r.success))
                   /\ sink' = sink \o SinkRows(t, r.metrics)
                   /\ UNCHANGED <<opc, raisedError, sinkFailed>>
    /\ UNCHANGED <<notOrch, parallel, max_workers, service_endpoints, report, services>>

\* Every target has been processed: run_benchmark goes on to step 5, the
\* report.
Step4Done ==
    /\ opc = "step4"
    /\ \A t \in Targets : tstate[t] = "processed"
    /\ opc' = "report"
    /\ UNCHANGED <<notOrch, parallel, max_workers, raisedError, service_endpoints,
                   tstate,
                   fate, outcomes, future, benchmark_results, sink, sinkFailed, report,
                   services_config, services, invocations>>

\* Step 5: all_metrics = self.monitor.get_data(), which raises when the sink
\* is unavailable; report = reporter.generate_report(all_metrics), saved and
\* printed; then report['summary'] is read for the log, which raises KeyError
\* on the empty report. Every exception is logged and raised again.
Step5Report ==
    /\ opc = "report"
    /\ \E sinkFault \in BOOLEAN :
        IF sinkFault
        THEN /\ opc' = "raised"
             /\ raisedError' = "SinkError"
             /\ UNCHANGED report
        ELSE /\ report' = generate_report(sink)
             /\ IF "summary" \in DOMAIN report'
                THEN opc' = "cleanup" /\ UNCHANGED raisedError
                ELSE opc' = "raised" /\ raisedError' = "KeyError"
    /\ UNCHANGED <<notOrch, parallel, max_workers, service_endpoints, tstate, fate,
                   outcomes, future, benchmark_results, sink, sinkFailed,
                   services_config, services, invocations>>

\* Step 6, reached when nothing was raised before: service.stop_service()
\* for every service of self.services, then run_benchmark returns the report.
Step6Cleanup ==
    /\ opc = "cleanup"
    /\ services' = [t \in Targets |-> "stop_called"]
    /\ opc' = "done"
    /\ UNCHANGED <<notOrch, parallel, max_workers, raisedError, service_endpoints,
                   tstate, fate, outcomes, future, benchmark_results, sink,
                   sinkFailed, report, services_config, invocations>>

OrchStep ==
    \/ \E t \in Targets : RetrieveEndpoint(t)
    \/ \E t \in Targets : TaskStart(t)
    \/ \E t \in Targets : TaskFinish(t)
    \/ \E t \in Targets : ProcessCompleted(t)
    \/ \E t \in Targets : SequentialIteration(t)
    \/ Step4Done
    \/ Step5Report
    \/ Step6Cleanup

\* ------------------------------------------------------------ specifications
IdleConfig ==
    [service_type |-> "ollama", backend |-> None, client_count |-> 1,
     duration |-> 1]

\* ------------------------------------------------------------ setup of a unified client
\* _benchmark_single_service creates the unified client of a target, calls
\* its setup and, when that returned True, its run.

\* The (service_type, backend) pairs a recipe can configure, with the types
\* and backends that _create_client maps to the HTTP client.
SetupKinds ==
    ServiceKinds \cup
    { [service_type |-> "vectordb", backend |-> "faiss"],
      [service_type |-> "vllm",     backend |-> None],
      [service_type |-> "triton",   backend |-> None],
      [service_type |-> "database", backend |-> "mysql"],
      [service_type |-> "redis",    backend |-> None] }

\* The methods each client class defines for its callers.
Attributes(client) ==
    CASE client = "BenchmarkClient" -> {"setup", "send_request", "run"}
      [] client = "PostgreSQLBenchmarkClient" ->
            {"connect", "setup_test_table", "execute_operation", "close"}
      [] client = "S3BenchmarkClient" ->
            {"connect", "setup_bucket", "execute_operation", "cleanup"}
      [] client = "FileStorageBenchmarkClient" ->
            {"setup", "execute_operation", "cleanup"}
      [] client = "VectorDBBenchmarkClient" ->
            {"connect", "execute_operation", "cleanup"}

\* hasattr(self.client, name)
HasAttr(client, name) == name \in Attributes(client)

\* What connect can do: return True, return False (it catches its own
\* exceptions), or raise from the constructor of the backend's library. The
\* vector client returns False for a backend it does not support.
ConnectResults(config) ==
    IF CreateClient(config) = "VectorDBBenchmarkClient" /\ config.backend \notin VectorBackends
    THEN {"False"}
    ELSE {"True", "False", "raises"}

\* What a preparation step can do. BenchmarkClient.setup only logs.
PreparationResults(client) ==
    IF client = "BenchmarkClient" THEN {"None"} ELSE {"True", "False", "raises"}

\* The preparation step UnifiedBenchmarkClient.setup calls: the chain
\* setup_bucket / setup_test_table / setup, entered only
\* "if hasattr(self.client, 'setup')".
PreparationStep(client) ==
    IF HasAttr(client, "setup")
    THEN IF HasAttr(client, "setup_bucket") THEN "setup_bucket"
         ELSE IF HasAttr(client, "setup_test_table") THEN "setup_test_table"
         ELSE "setup"
    ELSE None

\* The clients whose backend resource setup has to create; the HTTP client
\* has none, and the vector client's connect opens its collection.
NeedsResource(client) ==
    client \in {"PostgreSQLBenchmarkClient", "S3BenchmarkClient",
                "FileStorageBenchmarkClient"}

Call(method, result) == [method |-> method, result |-> result]

IdleSetup ==
    /\ unified_config = [service_type |-> None, backend |-> None]
    /\ upc = "idle"
    /\ client_calls = <<>>
    /\ resource_ready = TRUE
    /\ first_result = "none"

\* create_benchmark_client(service_config); the bucket, table or directory
\* may exist from an earlier run or not.
SetupInit ==
    /\ unified_config \in SetupKinds
    /\ upc = "start"
    /\ client_calls = <<>>
    /\ resource_ready \in (IF NeedsResource(CreateClient(unified_config))
                           THEN BOOLEAN ELSE {TRUE})
    /\ first_result = "none"

\* setup, first part: "if hasattr(self.client, 'connect'): if not
\* self.client.connect(): return False"; an exception is caught by setup's
\* except clause, which returns False.
UnifiedSetupConnect ==
    /\ upc = "start"
    /\ IF HasAttr(CreateClient(unified_config), "connect")
       THEN \E r \in ConnectResults(unified_config) :
                /\ client_calls' = Append(client_calls, Call("connect", r))
                /\ upc' = IF r = "True" THEN "connected" ELSE "returned_false"
       ELSE /\ upc' = "connected"
            /\ UNCHANGED client_calls
    /\ UNCHANGED <<notSetup, unified_config, resource_ready, first_result>>

\* setup, second part: the preparation step, whose return value is not
\* looked at, then "return True"; an exception makes setup return False.
UnifiedSetupPrepare ==
    /\ upc = "connected"
    /\ LET step == PreparationStep(CreateClient(unified_config))
       IN IF step = None
          THEN /\ upc' = "returned_true"
               /\ UNCHANGED <<client_calls, resource_ready>>
          ELSE \E r \in PreparationResults(CreateClient(unified_config)) :
                /\ client_calls' = Append(client_calls, Call(step, r))
                /\ resource_ready' = (resource_ready \/ r = "True")
                /\ upc' = IF r = "raises" THEN "returned_false" ELSE "returned_true"
    /\ UNCHANGED <<notSetup, unified_config, first_result>>

\* _benchmark_single_service: "if not client.setup(): ... return
\* (service_name, [], False)".
OrchestratorSkip ==
    /\ upc = "returned_false"
    /\ upc' = "skipped"
    /\ UNCHANGED <<notSetup, unified_config, client_calls, resource_ready, first_result>>

\* _benchmark_single_service: results = client.run().
OrchestratorRun ==
    /\ upc = "returned_true"
    /\ upc' = "running"
    /\ client_calls' = Append(client_calls, Call("run", "started"))
    /\ UNCHANGED <<notSetup, unified_config, resource_ready, first_result>>

\* The first operation of the run: against a bucket, table or directory that
\* does not exist the backend raises, and the executor returns a result with
\* success=False.
FirstOperation ==
    /\ upc = "running"
    /\ upc' = "operated"
    /\ first_result' \in (IF resource_ready THEN {"success", "failure"}
                          ELSE {"failure"})
    /\ UNCHANGED <<notSetup, unified_config, client_calls, resource_ready>>

SetupStep ==
    \/ UnifiedSetupConnect
    \/ UnifiedSetupPrepare
    \/ OrchestratorSkip
    \/ OrchestratorRun
    \/ FirstOperation

\* The state machines that a specification does not run stay as they start.
IdleOrch == OrchInit /\ parallel = FALSE /\ max_workers = 1

IdleRunner == RunnerInit /\ cfg = IdleConfig

RunnerNext == RunnerStep

Init == RunnerInit /\ SinkInit /\ IdleOrch /\ IdleAgg /\ IdleMix /\ IdleRace /\ IdleSetup

Spec == Init /\ [][RunnerNext]_vars

SinkNext == SinkStep

SinkSpecInit == IdleRunner /\ SinkInit /\ IdleOrch /\ IdleAgg /\ IdleMix /\ IdleRace /\ IdleSetup

SinkSpec == SinkSpecInit /\ [][SinkNext]_vars

ExporterNext == ExporterStep

ExporterSpecInit == IdleRunner /\ SinkInit /\ IdleOrch /\ IdleAgg /\ IdleMix /\ IdleRace /\ IdleSetup

ExporterSpec == ExporterSpecInit /\ [][ExporterNext]_vars

OrchNext == OrchStep

OrchSpecInit == IdleRunner /\ SinkInit /\ OrchInit /\ IdleAgg /\ IdleMix /\ IdleRace /\ IdleSetup

OrchSpec == OrchSpecInit /\ [][OrchNext]_vars

AggNext == AggStep

AggSpecInit == IdleRunner /\ SinkInit /\ IdleOrch /\ AggInit /\ IdleMix /\ IdleRace /\ IdleSetup

AggSpec == AggSpecInit /\ [][AggNext]_vars

MixNext == MixStep

MixSpecInit ==
    /\ IdleRunner /\ SinkInit /\ IdleOrch /\ IdleAgg /\ MixInit /\ IdleRace
    /\ IdleSetup

MixSpec == MixSpecInit /\ [][MixNext]_vars

RaceNext == RaceStep

RaceSpecInit ==
    /\ IdleRunner /\ SinkInit /\ IdleOrch /\ IdleAgg /\ IdleMix /\ RaceInit
    /\ IdleSetup

RaceSpec == RaceSpecInit /\ [][RaceNext]_vars

SetupNext == SetupStep

SetupSpecInit ==
    /\ IdleRunner /\ SinkInit /\ IdleOrch /\ IdleAgg /\ IdleMix /\ IdleRace
    /\ SetupInit

SetupSpec == SetupSpecInit /\ [][SetupNext]_vars

\* ------------------------------------------------------------ claims: Target Runner
OutcomesOf(list, w) == {i \in 1..Len(list) : list[i].client = w}

\* C1: when run() has returned, every worker thread has terminated and the
\* returned list holds every Outcome a worker produced, each exactly once.
C1_RunReturnsEveryOutcomeOnce ==
    runpc = "returned" =>
        /\ \A w \in Threads(cfg) : wpc[w] = "done"
        /\ Range(returned) = produced
        /\ NoDuplicates(returned)

\* Two workers ran, three or more Outcomes were returned, and the appends of
\* the two workers interleaved.
C1_Witness ==
    /\ runpc = "returned"
    /\ Len(returned) >= 3
    /\ \E i, j, k \in 1..Len(returned) :
        /\ i < j /\ j < k
        /\ returned[i].client = returned[k].client
        /\ returned[j].client # returned[i].client

\* C4: no operation is started once the elapsed time since the worker's start
\* has reached the run duration: the operation in flight and every Outcome of
\* a worker have a start timestamp less than duration after the worker's start.
C4_NoOperationStartedAfterDeadline ==
    \A w \in Workers :
        /\ wpc[w] = "inflight" => opStart[w] - wstart[w] < cfg.duration
        /\ \A o \in produced :
            o.client = w => o.timestamp - wstart[w] < cfg.duration

\* A worker has terminated after an operation that was in flight at its
\* deadline completed.
C4_Witness ==
    \E w \in Workers :
        /\ wpc[w] = "done"
        /\ \E o \in produced :
            /\ o.client = w
            /\ o.timestamp - wstart[w] < cfg.duration
            /\ o.timestamp + o.duration - wstart[w] > cfg.duration

\* C5: every executor call returns an Outcome value (a RequestResult or a
\* specialised result), never None.
C5_ExecutorAlwaysReturnsOutcome ==
    \A w \in Workers : ret[w] \in {NoCall.kind, "RequestResult", "SpecialResult"}

\* C6: the number of Outcomes a worker contributes to the returned list equals
\* the number of operation attempts it made.
C6_OutcomesEqualAttempts ==
    runpc = "returned" =>
        \A w \in Threads(cfg) : Cardinality(OutcomesOf(returned, w)) = attempts[w]

\* C9: in every returned Outcome the error description is present exactly
\* when success is false.
C9_ErrorIffFailure ==
    runpc = "returned" =>
        \A i \in 1..Len(returned) :
            (returned[i].error # None) <=> ~returned[i].success

RowsOf(rows, c) == {i \in 1..Len(rows) : rows[i].service_name = c}

\* C2: a query returns none or all of a batch's rows, and none of a batch
\* whose append failed.
C2_NoPartialBatch ==
    \A c \in Writers :
        LET k == Cardinality(RowsOf(lastQuery.rows, c))
        IN /\ k = 0 \/ k = Len(batch[c])
           /\ spc[c] \in {"raised", "failed"} => k = 0

\* A query ran while a writer had inserted a part of its batch, and that
\* append then failed.
C2_Witness ==
    \E c \in lastQuery.partial :
        /\ Len(batch[c]) >= 2
        /\ spc[c] = "failed"

\* C3: a query by the run id made after both batches were appended returns
\* exactly len(A) + len(B) rows, each metric of each batch once, and no row
\* of another run id.
C3_ConcurrentAppendsAllReturned ==
    (lastQuery.done = Writers /\ lastQuery.benchmark_id = CurrentRun) =>
        /\ Len(lastQuery.rows) = Len(batch["A"]) + Len(batch["B"])
        /\ \A c \in Writers : \A n \in 1..Len(batch[c]) :
            Cardinality({i \in RowsOf(lastQuery.rows, c) :
                            lastQuery.rows[i].n = n}) = 1
        /\ \A i \in 1..Len(lastQuery.rows) :
            lastQuery.rows[i].benchmark_id = CurrentRun

\* Both appends were open at once, both committed a full batch, and the run
\* was queried afterwards.
C3_Witness ==
    /\ lastQuery.done = Writers
    /\ lastQuery.benchmark_id = CurrentRun
    /\ Len(lastQuery.rows) = 2 * MaxBatch
    /\ overlapped

C11_LatestAreMostRecentlyAppended ==
    (lastLatest.limit > 0 /\ ~lastLatest.failed) =>
        /\ Len(lastLatest.rows) =
               (IF lastLatest.limit < lastLatest.appended
                THEN lastLatest.limit ELSE lastLatest.appended)
        /\ \A i \in 1..Len(lastLatest.rows) : \A k \in 1..lastLatest.appended :
               db[k].id > lastLatest.rows[i].id =>
                   \E j \in 1..Len(lastLatest.rows) : lastLatest.rows[j].id = db[k].id

\* benchmark_requests_total of one label set in export_prometheus_format's
\* output for the rows of a scrape: the rows grouped under the key
\* "service:benchmark_id".
RequestsTotal(rows, service, bid) ==
    Len(SelectSeq(rows, LAMBDA r : r.service_name = service /\ r.benchmark_id = bid))

LabelSets == (Writers \cup {"earlier"}) \X RunIds

\* C29: across two successive scrapes of the metrics endpoint that both read
\* the database, with the same limit and with nothing but appends between
\* them, benchmark_requests_total of a (service, benchmark_id) label set
\* never decreases.
C29_CountersNeverDecrease ==
    (/\ lastLatest.previous.limit > 0
     /\ lastLatest.limit = lastLatest.previous.limit
     /\ ~lastLatest.failed /\ ~lastLatest.previous.failed) =>
        \A k \in LabelSets :
            RequestsTotal(lastLatest.rows, k[1], k[2]) >=
                RequestsTotal(lastLatest.previous.rows, k[1], k[2])

\* ------------------------------------------------------------ claims: Orchestrator
SinkRowsOf(t) == SelectSeq(sink, LAMBDA r : r.service_name = t)

Failed(t) == fate[t] \in Fates \ {"ok"}

\* C7: a target whose client creation, setup or run fails or raises is
\* reported as ([], False) and has no rows in the sink;
\* run_benchmark never raises a target's own exception, so when step 5 is
\* reached every target has run, and every target that
\* did not fail (and whose append did not fail) is reported as
\* (its outcomes, True) and has exactly its outcomes in the sink.
C7_TargetFailureIsolated ==
    /\ raisedError # "TargetError"
    /\ opc = "report" =>
         \A t \in Targets :
            /\ tstate[t] = "processed"
            /\ t \in DOMAIN benchmark_results
            /\ Failed(t) =>
                 /\ benchmark_results[t] = Entry(<<>>, FALSE)
                 /\ SinkRowsOf(t) = <<>>
            /\ (fate[t] = "ok" /\ t \notin sinkFailed) =>
                 /\ benchmark_results[t] = Entry(outcomes[t], TRUE)
                 /\ SinkRowsOf(t) = SinkRows(t, outcomes[t])

\* The run reached its report with one target failed by an exception and
\* another one benchmarked and stored.
C7_Witness ==
    /\ opc = "report"
    /\ \E t \in Targets : fate[t] \in {"create_raises", "run_raises"}
    /\ \E t \in Targets : fate[t] = "ok" /\ Len(SinkRowsOf(t)) = MaxMetrics

\* C25: running a target leaves every field of the target's configuration
\* as it was created from the recipe.
C25_ConfigNeverMutated ==
    \A t \in Targets : services_config[t] = ServiceConfig

\* C26: every record stored in the sink carries the start timestamp of the
\* operation it records.
C26_StoredTimestampIsOperationStart ==
    \A i \in 1..Len(sink) : sink[i].timestamp = sink[i].op_start

\* C27: on every path by which run_benchmark ends, returning the report or
\* raising, stop_service has been called on every service that was started.
C27_ServicesStoppedOnEveryPath ==
    opc \in {"done", "raised"} => \A t \in Targets : services[t] = "stop_called"

C13_FailedTargetsStillReport ==
    /\ ~(opc = "raised" /\ raisedError = "KeyError")
    /\ opc = "done" =>
         /\ DOMAIN report.services = {t \in Targets : SinkRowsOf(t) # <<>>}
         /\ report.summary.total_requests = Len(sink)
         /\ report.summary.successful_requests = Len(Successful(sink))
         /\ report.summary.failed_requests = Len(FailedMetrics(sink))

\* C12: a target for which no address can be obtained is skipped without
\* failing the run: run_benchmark never raises for a missing endpoint.
C12_NoAddressSkipsTargetOnly == ~(opc = "raised" /\ raisedError = "RuntimeError")

\* C8: a sink failure during the orchestrator's append is surfaced as an error
\* of run_benchmark: the run never goes on to the report after an append
\* raised.
C8_SinkFailureSurfaced == opc = "report" => sinkFailed = {}

\* ------------------------------------------------------------ Aggregator claims
\* The report of a non-empty list of metrics has been generated.
ReportGenerated == output.op = "generate_report" /\ metrics_in # <<>>

\* The metrics of one service.
MetricsOf(service) == SelectSeq(metrics_in, LAMBDA m : m.service_name = service)

RateInRange(rate) == FracLeq(Frac(0, 1), rate) /\ FracLeq(rate, Frac(100, 1))

\* C14: for a non-empty list of metrics, in the global summary and in every
\* per-service analysis, successful + failed = total and the success rate is
\* between 0 and 100.
C14_CountsAddUpAndRateInRange ==
    ReportGenerated =>
        LET summary == output.value.summary
            service_reports == output.value.services
        IN /\ summary.successful_requests + summary.failed_requests
                = summary.total_requests
           /\ RateInRange(summary.success_rate)
           /\ \A service \in DOMAIN service_reports :
                /\ service_reports[service].successful + service_reports[service].failed
                     = service_reports[service].total_requests
                /\ RateInRange(service_reports[service].success_rate)

C14_Witness ==
    /\ ReportGenerated
    /\ output.value.summary.successful_requests > 0
    /\ output.value.summary.failed_requests > 0
    /\ DOMAIN output.value.services = AggServices

\* C15: _percentile returns sorted[floor(i)] + (i - floor(i)) *
\* (sorted[ceil(i)] - sorted[floor(i)]) with i = (n - 1) * p / 100, 0 for an
\* empty list and the single value for a list of one.
C15_PercentileInterpolates ==
    output.op = "_percentile" =>
        LET data == sorted(RequestDurations(Successful(metrics_in)))
            n == Len(data)
            i100 == (n - 1) * output.arg
            floor == i100 \div 100
            ceil == (i100 + 99) \div 100
        IN IF n = 0 THEN FracEq(output.value, Frac(0, 1))
           ELSE IF n = 1 THEN FracEq(output.value, Frac(data[1], 1))
           ELSE FracEq(output.value,
                       Frac(100 * data[floor + 1]
                              + (i100 - 100 * floor) * (data[ceil + 1] - data[floor + 1]),
                            100))

C15_Witness ==
    /\ output.op = "_percentile"
    /\ output.arg = 25
    /\ LET data == sorted(RequestDurations(Successful(metrics_in)))
       IN /\ Len(data) = 3
          /\ data[1] < data[2]
          /\ FracLeq(Frac(data[1] + 1, 1), output.value)
          /\ FracLeq(output.value, Frac(data[2] - 1, 1))

\* C16: in the analysis of every service with a successful duration,
\* p50 <= p90 <= p95 <= p99, min <= p50 <= max, and the median is p50.
C16_PercentileLadder ==
    ReportGenerated =>
        \A service \in DOMAIN output.value.services :
            LET analysis == output.value.services[service]
                p == analysis.percentiles
            IN analysis.successful > 0 =>
                /\ FracLeq(p["p50"], p["p90"])
                /\ FracLeq(p["p90"], p["p95"])
                /\ FracLeq(p["p95"], p["p99"])
                /\ FracLeq(Frac(analysis.timing.min_duration, 1), p["p50"])
                /\ FracLeq(p["p50"], Frac(analysis.timing.max_duration, 1))
                /\ FracEq(analysis.timing.median_duration, p["p50"])

C16_Witness ==
    /\ ReportGenerated
    /\ \E service \in DOMAIN output.value.services :
        LET analysis == output.value.services[service]
        IN /\ analysis.successful = 3
           /\ ~FracLeq(analysis.percentiles["p90"], analysis.percentiles["p50"])
           /\ ~FracLeq(analysis.percentiles["p99"], analysis.percentiles["p95"])
           /\ ~FracLeq(analysis.percentiles["p50"],
                       Frac(analysis.timing.min_duration, 1))

\* The standard deviation the claim describes, squared: the population one for
\* two durations or more, 0 for fewer.
PopulationStdevSquared(durations) ==
    IF Len(durations) >= 2 THEN pstdev_squared(durations) ELSE Frac(0, 1)

\* C17: the reported standard deviation of the successful durations is the
\* population standard deviation (squared deviations divided by n) for two
\* durations or more, and 0 for fewer.
C17_StdevIsPopulation ==
    ReportGenerated =>
        /\ FracEq(output.value.summary.stdev_duration,
                  PopulationStdevSquared(RequestDurations(Successful(metrics_in))))
        /\ \A service \in DOMAIN output.value.services :
            FracEq(output.value.services[service].timing.stdev_duration,
                   PopulationStdevSquared(
                        RequestDurations(Successful(MetricsOf(service)))))

\* C18: the throughput of a service over its n metrics is n divided by
\* max(timestamp + duration) - min(timestamp), and 0 when that span is 0.
C18_ThroughputOverSpanToEnd ==
    ReportGenerated =>
        \A service \in DOMAIN output.value.services :
            FracEq(output.value.services[service].throughput.requests_per_second,
                   _calculate_throughput_to_end(MetricsOf(service)).requests_per_second)

\* ------------------------------------------------------------ Exposition claims
\* An exposition text of a non-empty list of metrics has been produced.
Exported ==
    /\ output.op \in {"export_metrics", "export_prometheus_format"}
    /\ metrics_in # <<>>

LinesOf(name, service) ==
    SelectSeq(output.value, LAMBDA l : l.name = name /\ l.service = service)

BucketLines(service) == LinesOf("benchmark_request_duration_seconds_bucket", service)

\* C19: in the lines of every service the bucket lines come in increasing
\* order of le with non-decreasing counts, and the last one, +Inf, has the
\* value of the _count line.
C19_BucketsCumulative ==
    Exported =>
        \A service \in AggServices :
            LET b == BucketLines(service)
                count == LinesOf("benchmark_request_duration_seconds_count", service)
            IN /\ \A i \in 1..(Len(b) - 1) : b[i].value <= b[i + 1].value
               /\ \A i \in 1..(Len(b) - 2) : b[i].le.bound < b[i + 1].le.bound
               /\ b # <<>> =>
                    /\ \A i \in 1..(Len(b) - 1) : ~b[i].le.inf
                    /\ b[Len(b)].le = PlusInf
                    /\ Len(count) = 1
                    /\ b[Len(b)].value = count[1].value

C19_Witness ==
    /\ Exported
    /\ \E service \in AggServices :
        LET b == BucketLines(service)
        IN /\ b # <<>>
           /\ b[1].value = 1
           /\ b[4].value = 2
           /\ b[Len(b)].value = 3

\* The ladder of bounds the claim describes, in milliseconds, then +Inf.
ClaimedLadder ==
    <<Le(1), Le(10), Le(100), Le(500), Le(1000), Le(2500), Le(5000), Le(10000),
      PlusInf>>

\* C20: the bucket lines of a service are those of the ladder 0.001, 0.01,
\* 0.1, 0.5, 1.0, 2.5, 5.0, 10.0, +Inf, each with the number of successful
\* metrics of the service whose duration is <= the bound; _sum and _count
\* are the sum and the number of the successful durations.
C20_LadderAndSuccessfulOnly ==
    Exported =>
        \A service \in AggServices :
            LET ok == RequestDurations(Successful(MetricsOf(service)))
                b == BucketLines(service)
            IN /\ b # <<>> =>
                    /\ [i \in 1..Len(b) |-> b[i].le] = ClaimedLadder
                    /\ \A i \in 1..Len(b) :
                        b[i].value = IF b[i].le.inf THEN Len(ok)
                                     ELSE Len(SelectSeq(ok, LAMBDA d : d <= b[i].le.bound))
               /\ \A l \in Range(LinesOf("benchmark_request_duration_seconds_sum",
                                         service)) : l.value = Sum(ok)
               /\ \A l \in Range(LinesOf("benchmark_request_duration_seconds_count",
                                         service)) : l.value = Len(ok)

\* The index of the first metric of a service in the list passed in.
FirstMetric(service) ==
    CHOOSE i \in 1..Len(metrics_in) :
        /\ metrics_in[i].service_name = service
        /\ \A j \in 1..(i - 1) : metrics_in[j].service_name # service

\* The position of a sample name in the fixed order of a service's lines.
NameIndex(name) == CHOOSE i \in 1..Len(SampleNames) : SampleNames[i] = name

RECURSIVE CumulativeWeight(_)
CumulativeWeight(i) ==
    IF i = 0 THEN 0 ELSE CumulativeWeight(i - 1) + operation_mix[i].weight

\* The items of the mix that name an operation of the client and whose
\* cumulative weight reaches the draw.
Reached(rand) ==
    {i \in 1..Len(operation_mix) :
        /\ operation_mix[i].operation \in SupportedOperations(mixClient)
        /\ rand <= CumulativeWeight(i)}

\* C23: execute_operation executes exactly one operation: the first
\* operation of the mix, in dict order, whose cumulative weight reaches the
\* draw, and the client's default operation when there is none.
C23_CumulativeSelection ==
    executed # NotExecuted =>
        LET reached == Reached(executed.rand)
        IN /\ Len(executed.operations) = 1
           /\ IF reached = {}
              THEN executed.operations[1] = DefaultOperation(mixClient)
              ELSE executed.operations[1] =
                     operation_mix[CHOOSE i \in reached :
                                        \A j \in reached : i <= j].operation

\* The draw passed the first operation's weight and was reached by the
\* cumulative weight of the second, which is not the default operation.
C23_Witness ==
    /\ executed # NotExecuted
    /\ Len(operation_mix) = 2
    /\ operation_mix[1].operation \in SupportedOperations(mixClient)
    /\ executed.rand > operation_mix[1].weight
    /\ executed.rand > operation_mix[2].weight
    /\ executed.operations = <<operation_mix[2].operation>>
    /\ operation_mix[2].operation # DefaultOperation(mixClient)

\* ------------------------------------------------------------ Shared resource list claims
\* C24: when the workers of one target run their operations concurrently no
\* operation fails, no created identifier is lost (each is in the list or was
\* deleted) and none is handed to the backend's delete twice.
C24_ResourceListRaceFree ==
    /\ opFailed = {}
    /\ NoDuplicates(deleted)
    /\ \A id \in 1..next_id : id \in Range(created_objects) \cup Range(deleted)

\* ------------------------------------------------------------ claims: setup of a unified client
Called(method) == \E i \in 1..Len(client_calls) : client_calls[i].method = method

CalledBefore(first, second) ==
    \E i, j \in 1..Len(client_calls) :
        /\ i < j
        /\ client_calls[i].method = first
        /\ client_calls[j].method = second

\* The resource-preparation step of each client class.
ResourcePreparation(client) ==
    CASE client = "S3BenchmarkClient" -> "setup_bucket"
      [] client = "PostgreSQLBenchmarkClient" -> "setup_test_table"
      [] client = "FileStorageBenchmarkClient" -> "setup"
      [] client = "BenchmarkClient" -> "setup"
      [] OTHER -> None

\* C30: when UnifiedBenchmarkClient.setup has returned True, the specialised
\* client has been connected (when it has a connect step) and its
\* resource-preparation step has been invoked after that: setup_bucket for
\* S3, setup_test_table for PostgreSQL, setup for file storage and HTTP; and
\* run is called only after setup returned True.
C30_SetupPreparesBeforeRun ==
    LET client == CreateClient(unified_config)
        step == ResourcePreparation(client)
    IN /\ upc \in {"returned_true", "running", "operated"} =>
            /\ HasAttr(client, "connect") => Called("connect")
            /\ step # None => Called(step)
            /\ (HasAttr(client, "connect") /\ step # None) =>
                    CalledBefore("connect", step)
       /\ Called("run") => upc \in {"running", "operated"}
       /\ upc = "skipped" => ~Called("run")

====
